---------------------------- MODULE Spec2Model ----------------------------
(***************************************************************************)
(* MicroBeast font editor: the font document, the anchor-based selection,  *)
(* the clipboard and the handlers of App (src/unnamed/part_000) that       *)
(* change them, driven by the events FontGrid, CharacterEditor and Toolbar *)
(* deliver.                                                                *)
(*                                                                         *)
(* A JavaScript array is a sequence: index i of the source is position     *)
(* i + 1 here.  A JavaScript Set is a sequence without duplicates, in      *)
(* insertion order.  The 16 x 16 grid of 256 slots is scaled down to       *)
(* GridCols columns and NumSlots slots.                                    *)
(***************************************************************************)
EXTENDS Integers, Sequences, FiniteSets, TLC

VARIABLES
    font,       \* useState font: [name, characters]
    selection,  \* useState selection: [anchor, selected]
    clipboard,  \* useState clipboard: Null or [characters]
    dragIndex,  \* FontGrid useState dragIndex: NoCell or the cell dragged
    lastOp,     \* history: the event handled last and its arguments
    ops         \* history: the number of events handled so far

vars == <<font, selection, clipboard, dragIndex, lastOp, ops>>

\* null in dragIndex, which otherwise holds the index of a cell.
NoCell == -1

----------------------------------------------------------------------------
(* Bounds of the model *)

\* Slots of the table (256 in the source, line 14 of part_000).
NumSlots == 3

\* Columns of the grid, the stride of ArrowUp/ArrowDown (16 in the source).
GridCols == 2

\* Events handled in one behaviour.
MaxOps == 5

\* "_copy" suffixes a name may carry; a copy or paste that would exceed it
\* is not explored.
MaxCopySuffixes == 1

\* The segments clicked in the editor, by bit value (the source has 15):
\* the last one, dp.
ClickedSegments == {16384}

\* The names typed into the editor's name field ("" clears the name).
TypedNames == {"", "A"}

\* The names typed into the font name field of the toolbar.
TypedFontNames == {"F"}

\* The indices handed to handleSelect when it is called directly: those of
\* the table and the first one beyond it.
EngineIndices == 0..NumSlots

----------------------------------------------------------------------------
(* JavaScript values *)

\* null, as a slot of the table and as the clipboard.
Null == [null |-> TRUE]

\* undefined: a hole of an array, an index outside it.
Undefined == [undefined |-> TRUE]

\* null as a character's name (a name is a string).
NullName == "<null>"

\* undefined as a character's name (a property that is missing).
UndefinedName == "<undefined>"

\* Truthiness of a name: null, undefined and "" are falsy.
NameTruthy(name) == name \notin {NullName, UndefinedName, ""}

\* name || null
NameOrNull(name) == IF NameTruthy(name) THEN name ELSE NullName

\* Truthiness of a slot's value: null and undefined are falsy, objects truthy.
CharTruthy(char) == char # Null /\ char # Undefined

\* arr[i], for any integer i.
At(arr, i) == IF i >= 0 /\ i < Len(arr) THEN arr[i + 1] ELSE Undefined

\* arr[i] = v: extends the array (with holes) when i >= arr.length, and
\* sets a property that is no element when i < 0.
ArraySet(arr, i, v) ==
    IF i < 0 THEN arr
    ELSE IF i < Len(arr) THEN [arr EXCEPT ![i + 1] = v]
    ELSE [k \in 1..(i + 1) |->
            IF k <= Len(arr) THEN arr[k] ELSE IF k = i + 1 THEN v ELSE Undefined]

\* The elements of a sequence.
Elems(seq) == {seq[k] : k \in 1..Len(seq)}

\* set.has(x)
Has(set, x) == x \in Elems(set)

\* set.add(x): appended when new.
SetAdd(set, x) == IF Has(set, x) THEN set ELSE Append(set, x)

\* set.delete(x): the order of the others is kept.
SetDelete(set, x) == SelectSeq(set, LAMBDA y : y # x)

\* new Set(array): duplicates dropped, first occurrences in order.
RECURSIVE NewSet(_)
NewSet(arr) ==
    IF arr = <<>> THEN <<>>
    ELSE SetAdd(NewSet(SubSeq(arr, 1, Len(arr) - 1)), arr[Len(arr)])

\* Array.from(set).sort((a, b) => a - b)
RECURSIVE SortAsc(_)
SortAsc(set) ==
    IF set = <<>> THEN <<>>
    ELSE LET m == CHOOSE x \in Elems(set) : \A y \in Elems(set) : x <= y
         IN  <<m>> \o SortAsc(SetDelete(set, m))

Min(a, b) == IF a < b THEN a ELSE b
Max(a, b) == IF a > b THEN a ELSE b

----------------------------------------------------------------------------
(* App: construction *)

BlankChar == [segments |-> 0, name |-> NullName]

\* createEmptyFont
createEmptyFont(name) ==
    [name |-> name,
     characters |-> ArraySet([k \in 1..NumSlots |-> Null], 0, BlankChar)]

\* Mutant of createSelectionRange: anchor and focus are not ordered.
createSelectionRangeForward(anchor, focus) ==
    IF focus < anchor THEN <<>>
    ELSE [k \in 1..(focus - anchor + 1) |-> anchor + k - 1]

\* createSelectionRange: the indices start..end, inserted ascending.
createSelectionRange(anchor, focus) ==
    LET start == Min(anchor, focus)
        end   == Max(anchor, focus)
    IN  [k \in 1..(end - start + 1) |-> start + k - 1]

\* const selectedCharacter = font.characters[selection.anchor]
selectedCharacter == At(font.characters, selection.anchor)

\* CharacterEditor reads character.segments while rendering: with a null
\* character the render throws and React unmounts the application, so no
\* further event is handled.
Mounted == CharTruthy(selectedCharacter)

Init ==
    /\ font = createEmptyFont("Untitled Font")
    /\ selection = [anchor |-> 0, selected |-> <<0>>]
    /\ clipboard = Null
    /\ dragIndex = NoCell
    /\ lastOp = [op |-> "init"]
    /\ ops = 0

\* Every event: the application is mounted; the model handles MaxOps events.
Handled == Mounted /\ ops < MaxOps /\ ops' = ops + 1

\* An event outside a drag: no cell is being dragged.
Event == Handled /\ dragIndex = NoCell /\ dragIndex' = NoCell

----------------------------------------------------------------------------
(* App.handleSelect *)

\* char && char.segments === 0 && !char.name
IsEmptyContent(char) ==
    CharTruthy(char) /\ char.segments = 0 /\ ~NameTruthy(char.name)

\* The loop over selection.selected: an empty character of the previous
\* selection, other than the one clicked, goes back to null.
RECURSIVE RevertEmpty(_, _, _)
RevertEmpty(chars, selected, index) ==
    IF selected = <<>> THEN chars
    ELSE LET prevIndex == Head(selected)
             next == IF prevIndex # index /\ IsEmptyContent(At(chars, prevIndex))
                     THEN ArraySet(chars, prevIndex, Null)
                     ELSE chars
         IN  RevertEmpty(next, Tail(selected), index)

\* Mutant of AutoCreate: the cell is created on a shift-click too.
AutoCreateOnShift(chars, index, shift) ==
    IF At(chars, index) = Null
    THEN ArraySet(chars, index, [segments |-> 0, name |-> NullName])
    ELSE chars

\* if (!shift && newCharacters[index] === null)
AutoCreate(chars, index, shift) ==
    IF ~shift /\ At(chars, index) = Null
    THEN ArraySet(chars, index, BlankChar)
    ELSE chars

\* The setFont updater of handleSelect.
SelectFont(prevFont, selected, index, shift) ==
    [prevFont EXCEPT
       !.characters = AutoCreate(RevertEmpty(@, selected, index), index, shift)]

\* Mutant of CtrlToggle: after the anchor is removed the new anchor is the
\* smallest remaining index.
CtrlToggleSmallest(prev, index) ==
    IF Has(prev.selected, index)
    THEN LET remaining == SetDelete(prev.selected, index)
         IN  IF index = prev.anchor
             THEN [anchor   |-> IF Len(remaining) > 0 THEN SortAsc(remaining)[1] ELSE index,
                   selected |-> IF Len(remaining) > 0 THEN remaining ELSE <<index>>]
             ELSE [anchor |-> index, selected |-> remaining]
    ELSE [anchor |-> index, selected |-> SetAdd(prev.selected, index)]

\* The ctrl branch of the setSelection updater.
CtrlToggle(prev, index) ==
    IF Has(prev.selected, index)
    THEN LET remaining == SetDelete(prev.selected, index)
         IN  IF index = prev.anchor
             THEN [anchor   |-> IF Len(remaining) > 0 THEN remaining[1] ELSE index,
                   selected |-> IF Len(remaining) > 0 THEN remaining ELSE <<index>>]
             ELSE [anchor |-> index, selected |-> remaining]
    ELSE [anchor |-> index, selected |-> SetAdd(prev.selected, index)]

\* The setSelection updater of handleSelect.
SelectSelection(prev, index, shift, ctrl) ==
    IF shift
    THEN [anchor |-> prev.anchor,
          selected |-> createSelectionRange(prev.anchor, index)]
    ELSE IF ctrl
    THEN CtrlToggle(prev, index)
    ELSE [anchor |-> index, selected |-> <<index>>]

handleSelect(index, shift, ctrl) ==
    /\ font' = SelectFont(font, selection.selected, index, shift)
    /\ selection' = SelectSelection(selection, index, shift, ctrl)
    /\ UNCHANGED clipboard

\* The indices the grid has cells for.
Cells == 0..(NumSlots - 1)

\* FontGrid: onClick of a cell.
Click ==
    \E index \in Cells, shift \in BOOLEAN, ctrl \in BOOLEAN :
        /\ Event
        /\ handleSelect(index, shift, ctrl)
        /\ lastOp' = [op |-> "click", index |-> index, shift |-> shift, ctrl |-> ctrl]

----------------------------------------------------------------------------
(* App.handleKeyDown: arrow-key navigation *)

ArrowKeys == {"ArrowUp", "ArrowDown", "ArrowLeft", "ArrowRight"}

\* The switch on e.key: the candidate next anchor.
ArrowNext(key, current) ==
    CASE key = "ArrowUp"    -> IF current >= GridCols THEN current - GridCols ELSE current
      [] key = "ArrowDown"  -> IF current < NumSlots - GridCols THEN current + GridCols ELSE current
      [] key = "ArrowLeft"  -> IF current > 0 THEN current - 1 ELSE current
      [] key = "ArrowRight" -> IF current < NumSlots - 1 THEN current + 1 ELSE current

\* Mutant of handleArrow: only the selection follows the arrow key.
handleArrowSelectionOnly(key, shiftKey) ==
    LET current == selection.anchor
        next    == ArrowNext(key, current)
    IN  IF next # current
        THEN /\ selection' = SelectSelection(selection, next, shiftKey, FALSE)
             /\ UNCHANGED <<font, clipboard>>
        ELSE UNCHANGED <<font, selection, clipboard>>

\* if (next !== current) handleSelect(next, { shift: e.shiftKey })
handleArrow(key, shiftKey) ==
    LET current == selection.anchor
        next    == ArrowNext(key, current)
    IN  IF next # current
        THEN handleSelect(next, shiftKey, FALSE)
        ELSE UNCHANGED <<font, selection, clipboard>>

\* FontGrid: onKeyDown with an arrow key.
Arrow ==
    \E key \in ArrowKeys, shiftKey \in BOOLEAN :
        /\ Event
        /\ handleArrow(key, shiftKey)
        /\ lastOp' = [op |-> "arrow", key |-> key, shift |-> shiftKey]

----------------------------------------------------------------------------
(* App.handleUpdateCharacter and the CharacterEditor events that call it *)

\* newCharacters[selection.anchor] = character
handleUpdateCharacter(character) ==
    /\ font' = [font EXCEPT !.characters = ArraySet(@, selection.anchor, character)]
    /\ UNCHANGED <<selection, clipboard>>

\* SEGMENTS: the bit value of each of the 15 segments, a .. dp.
SEGMENTS == {1, 2, 4, 8, 16, 32, 64, 128, 256, 512, 1024, 2048, 4096, 8192, 16384}

\* Mutant of XorBit: the bit is added, not toggled.
XorBitAdds(value, bit) == value + bit

\* value ^ bit, for a single bit.
XorBit(value, bit) ==
    IF (value \div bit) % 2 = 1 THEN value - bit ELSE value + bit

\* CharacterEditor.handleSegmentClick
SegmentClick ==
    \E bit \in SEGMENTS \cap ClickedSegments :
        /\ Event
        /\ handleUpdateCharacter(
             [selectedCharacter EXCEPT !.segments = XorBit(@, bit)])
        /\ lastOp' = [op |-> "segmentClick", bit |-> bit]

\* CharacterEditor.handleNameChange: name: e.target.value || null
NameChange ==
    \E value \in TypedNames :
        /\ Event
        /\ handleUpdateCharacter(
             [selectedCharacter EXCEPT !.name = NameOrNull(value)])
        /\ lastOp' = [op |-> "nameChange", value |-> value]

\* CharacterEditor: the Reset button, onUpdate({ ...character, segments: 0 })
ResetButton ==
    /\ Event
    /\ handleUpdateCharacter([selectedCharacter EXCEPT !.segments = 0])
    /\ lastOp' = [op |-> "resetButton"]

----------------------------------------------------------------------------
(* App.handleCopyFrom *)

\* Mutant of WithSegments: the character is rebuilt without its name.
WithSegmentsDropsName(char, segments) ==
    [segments |-> segments, name |-> NullName]

\* { ...char, segments }
WithSegments(char, segments) ==
    IF CharTruthy(char)
    THEN [char EXCEPT !.segments = segments]
    ELSE [segments |-> segments, name |-> UndefinedName]

handleCopyFrom(fromIndex) ==
    LET sourceChar == At(font.characters, fromIndex)
    IN  /\ font' = IF ~CharTruthy(sourceChar) THEN font
                   ELSE [font EXCEPT !.characters =
                           ArraySet(@, selection.anchor,
                                    WithSegments(At(@, selection.anchor),
                                                 sourceChar.segments))]
        /\ UNCHANGED <<selection, clipboard>>

\* CharacterEditor.handleCopyFrom: onCopyFrom is called when the index
\* picked holds a character, and nothing happens otherwise.
CopyFrom ==
    \E index \in Cells :
        /\ Event
        /\ IF CharTruthy(At(font.characters, index))
           THEN handleCopyFrom(index)
           ELSE UNCHANGED <<font, selection, clipboard>>
        /\ lastOp' = [op |-> "copyFrom", index |-> index]


----------------------------------------------------------------------------
(* App.handleReorder: move by drag and drop *)

\* selectedIndices.map((srcIdx) => ({ src: srcIdx, dst: srcIdx + offset }))
Moves(selected, offset) ==
    LET selectedIndices == SortAsc(selected)
    IN  [k \in 1..Len(selectedIndices) |->
           [src |-> selectedIndices[k], dst |-> selectedIndices[k] + offset]]

\* Mutant of SomeOutOfBounds: the lower bound is not checked.
SomeOutOfBoundsNoLower(moves) ==
    \E k \in 1..Len(moves) : moves[k].dst >= NumSlots

\* moves.some((m) => m.dst < 0 || m.dst >= 256)
SomeOutOfBounds(moves) ==
    \E k \in 1..Len(moves) : moves[k].dst < 0 \/ moves[k].dst >= NumSlots

\* moves.map((m) => m.dst)
Dsts(moves) == [k \in 1..Len(moves) |-> moves[k].dst]

\* Mutant of ClearSources: a source is cleared when its own destination is
\* not one of the sources, that is, when no source is moved to the slot one
\* offset beyond its destination.
RECURSIVE ClearSourcesByOwnDestination(_, _, _)
ClearSourcesByOwnDestination(chars, moves, dstSet) ==
    IF moves = <<>> THEN chars
    ELSE LET m == Head(moves)
         IN  ClearSourcesByOwnDestination(
               IF ~Has(dstSet, m.dst + (m.dst - m.src))
               THEN ArraySet(chars, m.src, Null)
               ELSE chars,
               Tail(moves), dstSet)

\* The first loop: a source that is no destination goes to null.
RECURSIVE ClearSources(_, _, _)
ClearSources(chars, moves, dstSet) ==
    IF moves = <<>> THEN chars
    ELSE LET m == Head(moves)
         IN  ClearSources(IF ~Has(dstSet, m.src) THEN ArraySet(chars, m.src, Null)
                          ELSE chars,
                          Tail(moves), dstSet)

\* Mutant of PlaceMoved: an absent character is not written to its
\* destination.
RECURSIVE PlaceMovedSkipsAbsent(_, _)
PlaceMovedSkipsAbsent(chars, movedChars) ==
    IF movedChars = <<>> THEN chars
    ELSE PlaceMovedSkipsAbsent(
           IF CharTruthy(Head(movedChars).char)
           THEN ArraySet(chars, Head(movedChars).dst, Head(movedChars).char)
           ELSE chars,
           Tail(movedChars))

\* The second loop: newCharacters[dst] = char
RECURSIVE PlaceMoved(_, _)
PlaceMoved(chars, movedChars) ==
    IF movedChars = <<>> THEN chars
    ELSE PlaceMoved(ArraySet(chars, Head(movedChars).dst, Head(movedChars).char),
                    Tail(movedChars))

\* Mutant of ReorderFont: the characters moved are read after the sources
\* have been cleared.
ReorderFontInPlace(prev, moves) ==
    LET dstSet == NewSet(Dsts(moves))
        cleared == ClearSources(prev.characters, moves, dstSet)
        movedChars == [k \in 1..Len(moves) |->
                         [dst |-> moves[k].dst,
                          char |-> At(cleared, moves[k].src)]]
    IN  [prev EXCEPT !.characters = PlaceMoved(cleared, movedChars)]

\* The setFont updater of handleReorder.
ReorderFont(prev, moves) ==
    LET movedChars == [k \in 1..Len(moves) |->
                         [dst |-> moves[k].dst,
                          char |-> At(prev.characters, moves[k].src)]]
        dstSet == NewSet(Dsts(moves))
    IN  [prev EXCEPT
           !.characters = PlaceMoved(ClearSources(@, moves, dstSet), movedChars)]

\* Mutant of ClampAnchor: the new anchor is not clamped.
ClampAnchorNone(newAnchor) == newAnchor

\* Math.max(0, Math.min(255, newAnchor))
ClampAnchor(newAnchor) == Max(0, Min(NumSlots - 1, newAnchor))

\* The selection set after a move or a copy by drag.
DragSelection(anchor, moves, offset) ==
    [anchor |-> ClampAnchor(anchor + offset), selected |-> NewSet(Dsts(moves))]

\* The early returns of handleReorder and handleCopyCharacter.
DragRejected(fromIndex, toIndex) ==
    \/ fromIndex = toIndex
    \/ toIndex < 0 \/ toIndex >= NumSlots
    \/ SomeOutOfBounds(Moves(selection.selected, toIndex - fromIndex))

handleReorder(fromIndex, toIndex) ==
    LET offset == toIndex - fromIndex
        moves  == Moves(selection.selected, offset)
    IN  IF DragRejected(fromIndex, toIndex)
        THEN UNCHANGED <<font, selection, clipboard>>
        ELSE /\ font' = ReorderFont(font, moves)
             /\ selection' = DragSelection(selection.anchor, moves, offset)
             /\ UNCHANGED clipboard

----------------------------------------------------------------------------
(* App.handleCopyCharacter: copy by ctrl + drag and drop *)

\* Mutant of CopyName: the name is copied unchanged.
CopyNameUnchanged(name) == IF NameTruthy(name) THEN name ELSE NullName

\* name ? `${name}_copy` : null
CopyName(name) == IF NameTruthy(name) THEN name \o "_copy" ELSE NullName

\* { segments: char.segments, name: char.name ? `${char.name}_copy` : null }
CopyOf(char) == [segments |-> char.segments, name |-> CopyName(char.name)]

\* Mutant of PlaceCopies: the source of a copy is cleared, as in a move.
RECURSIVE PlaceCopiesClearsSource(_, _, _)
PlaceCopiesClearsSource(chars, prevChars, copies) ==
    IF copies = <<>> THEN chars
    ELSE LET sourceChar == At(prevChars, Head(copies).src)
         IN  PlaceCopiesClearsSource(
               IF CharTruthy(sourceChar)
               THEN ArraySet(ArraySet(chars, Head(copies).src, Null),
                             Head(copies).dst, CopyOf(sourceChar))
               ELSE chars,
               prevChars, Tail(copies))

\* The loop of the setFont updater: sources are read from prev.
RECURSIVE PlaceCopies(_, _, _)
PlaceCopies(chars, prevChars, copies) ==
    IF copies = <<>> THEN chars
    ELSE LET sourceChar == At(prevChars, Head(copies).src)
         IN  PlaceCopies(IF CharTruthy(sourceChar)
                         THEN ArraySet(chars, Head(copies).dst, CopyOf(sourceChar))
                         ELSE chars,
                         prevChars, Tail(copies))

handleCopyCharacter(fromIndex, toIndex) ==
    LET offset == toIndex - fromIndex
        copies == Moves(selection.selected, offset)
    IN  IF DragRejected(fromIndex, toIndex)
        THEN UNCHANGED <<font, selection, clipboard>>
        ELSE /\ font' = [font EXCEPT
                           !.characters = PlaceCopies(@, font.characters, copies)]
             /\ selection' = DragSelection(selection.anchor, copies, offset)
             /\ UNCHANGED clipboard

----------------------------------------------------------------------------
(* FontGrid: drag and drop *)

\* A drag start that leaves the selection as it is.
handleDragStartKeepsSelection(index) ==
    IF At(font.characters, index) = Null
    THEN UNCHANGED vars
    ELSE /\ dragIndex' = index
         /\ UNCHANGED <<font, selection, clipboard, lastOp, ops>>

\* FontGrid.handleDragStart: a cell without a character refuses the drag; a
\* cell outside the selection is first selected as by a plain click, which
\* is an event of its own; the cell becomes the cell dragged.
handleDragStart(index) ==
    IF At(font.characters, index) = Null
    THEN UNCHANGED vars
    ELSE IF ~Has(selection.selected, index)
    THEN /\ ops' = ops + 1
         /\ handleSelect(index, FALSE, FALSE)
         /\ dragIndex' = index
         /\ lastOp' = [op |-> "dragStart", index |-> index]
    ELSE /\ dragIndex' = index
         /\ UNCHANGED <<font, selection, clipboard, lastOp, ops>>

\* A name longer than a typed name with MaxCopySuffixes suffixes.
NameTooLong(char) ==
    /\ CharTruthy(char)
    /\ NameTruthy(char.name)
    /\ Len(char.name) > Len("A") + MaxCopySuffixes * Len("_copy")

\* The bound on names: no character of the table exceeds it.
NamesBounded(chars) == \A k \in 1..Len(chars) : ~NameTooLong(chars[k])

\* The step before was a move that changed the selection, and a move from
\* fromIndex to toIndex is the move back.
MovesBack(fromIndex, toIndex) ==
    /\ lastOp.op = "move"
    /\ selection.selected # lastOp.prevSelected
    /\ fromIndex = lastOp.to
    /\ toIndex = lastOp.from

\* A drag starts on any cell while no cell is being dragged, and while the
\* model still handles the drop that ends it.
DragStart ==
    \E index \in Cells :
        /\ Mounted
        /\ dragIndex = NoCell
        /\ handleDragStart(index)
        /\ ops' < MaxOps

\* The start of the drag in progress selected the cell dragged.
DragSelected == lastOp.op = "dragStart"

\* FontGrid.handleDrop: the drop ends the drag.
Dropped == Handled /\ dragIndex # NoCell /\ dragIndex' = NoCell

\* A drop on another cell without the copy modifier: onReorder.  The step
\* records the table and the selected set it started from, whether it is
\* the move back of the step before, and whether the drag selected its cell.
DropMove ==
    \E index \in Cells :
        /\ Dropped
        /\ dragIndex # index
        /\ handleReorder(dragIndex, index)
        /\ lastOp' = [op |-> "move", from |-> dragIndex, to |-> index,
                      prevCharacters |-> font.characters,
                      prevSelected |-> selection.selected,
                      back |-> MovesBack(dragIndex, index),
                      single |-> DragSelected]

\* A drop on another cell with the copy modifier, held at the start of the
\* drag (isCopying) or at the drop: onCopy.
DropCopy ==
    \E index \in Cells :
        /\ Dropped
        /\ dragIndex # index
        /\ handleCopyCharacter(dragIndex, index)
        /\ NamesBounded(font'.characters)
        /\ lastOp' = [op |-> "copyDrag", from |-> dragIndex, to |-> index,
                      prevCharacters |-> font.characters,
                      prevSelected |-> selection.selected,
                      single |-> DragSelected]

\* A drop on the cell dragged calls neither handler.
DropOnSelf ==
    /\ Dropped
    /\ UNCHANGED <<font, selection, clipboard>>
    /\ lastOp' = [op |-> "dropOnSelf", index |-> dragIndex]

\* FontGrid.handleDragEnd: a drag released outside the grid.
DragEnd ==
    /\ dragIndex # NoCell
    /\ dragIndex' = NoCell
    /\ UNCHANGED <<font, selection, clipboard, lastOp, ops>>

----------------------------------------------------------------------------
(* App.handleCopySelection, handlePaste, handleResetSelection *)

\* Mutant of Snapshot: absent slots are not filtered out.
SnapshotUnfiltered(chars, sel) ==
    LET selectedIndices == SortAsc(sel.selected)
    IN  [k \in 1..Len(selectedIndices) |->
           [offset |-> selectedIndices[k] - sel.anchor,
            char   |-> At(chars, selectedIndices[k])]]

\* selectedIndices.map(...).filter((item) => item.char !== null)
Snapshot(chars, sel) ==
    LET selectedIndices == SortAsc(sel.selected)
        items == [k \in 1..Len(selectedIndices) |->
                    [offset |-> selectedIndices[k] - sel.anchor,
                     char   |-> At(chars, selectedIndices[k])]]
    IN  SelectSeq(items, LAMBDA item : item.char # Null)

handleCopySelection ==
    LET characters == Snapshot(font.characters, selection)
    IN  /\ clipboard' = IF Len(characters) > 0
                        THEN [characters |-> characters]
                        ELSE clipboard
        /\ UNCHANGED <<font, selection>>

\* Mutant of Pastes: the destination is the stored offset, not the anchor
\* plus the offset.
PastesAtOffset(clip, anchor) ==
    [k \in 1..Len(clip.characters) |->
       [dst |-> clip.characters[k].offset,
        char |-> clip.characters[k].char]]

\* clipboard.characters.map((item) => ({ dst: anchor + item.offset, char }))
Pastes(clip, anchor) ==
    [k \in 1..Len(clip.characters) |->
       [dst |-> anchor + clip.characters[k].offset,
        char |-> clip.characters[k].char]]

\* The loop of the setFont updater of handlePaste.
RECURSIVE PlacePastes(_, _)
PlacePastes(chars, pastes) ==
    IF pastes = <<>> THEN chars
    ELSE PlacePastes(ArraySet(chars, Head(pastes).dst, CopyOf(Head(pastes).char)),
                     Tail(pastes))

\* The early returns of handlePaste.
PasteRejected ==
    \/ clipboard = Null
    \/ Len(clipboard.characters) = 0
    \/ SomeOutOfBounds(Pastes(clipboard, selection.anchor))

handlePaste ==
    IF PasteRejected
    THEN UNCHANGED <<font, selection, clipboard>>
    ELSE LET pastes == Pastes(clipboard, selection.anchor)
         IN  /\ font' = [font EXCEPT !.characters = PlacePastes(@, pastes)]
             /\ selection' = [anchor |-> selection.anchor,
                              selected |-> NewSet(Dsts(pastes))]
             /\ UNCHANGED clipboard

\* Mutant of ResetChars: the character is replaced by the blank character,
\* which loses its name.
RECURSIVE ResetCharsToBlank(_, _)
ResetCharsToBlank(chars, selected) ==
    IF selected = <<>> THEN chars
    ELSE LET idx == Head(selected)
         IN  ResetCharsToBlank(IF CharTruthy(At(chars, idx))
                               THEN ArraySet(chars, idx, BlankChar)
                               ELSE chars,
                               Tail(selected))

\* The loop of handleResetSelection: { ...char, segments: 0 }
RECURSIVE ResetChars(_, _)
ResetChars(chars, selected) ==
    IF selected = <<>> THEN chars
    ELSE LET idx == Head(selected)
         IN  ResetChars(IF CharTruthy(At(chars, idx))
                        THEN ArraySet(chars, idx, [At(chars, idx) EXCEPT !.segments = 0])
                        ELSE chars,
                        Tail(selected))

handleResetSelection ==
    /\ font' = [font EXCEPT !.characters = ResetChars(@, selection.selected)]
    /\ UNCHANGED <<selection, clipboard>>

\* handleKeyDown: Ctrl+C / Cmd+C
KeyCopy ==
    /\ Event
    /\ handleCopySelection
    /\ lastOp' = [op |-> "copy"]

\* handleKeyDown: Ctrl+V / Cmd+V
KeyPaste ==
    /\ Event
    /\ handlePaste
    /\ NamesBounded(font'.characters)
    /\ lastOp' = [op |-> "paste"]

\* handleKeyDown: Delete or Backspace
KeyDelete ==
    /\ Event
    /\ handleResetSelection
    /\ lastOp' = [op |-> "reset"]

\* handleKeyDown: Ctrl+A / Cmd+A matches no branch of the handler.
KeySelectAll ==
    /\ Event
    /\ UNCHANGED <<font, selection, clipboard>>
    /\ lastOp' = [op |-> "selectAll"]

----------------------------------------------------------------------------
(* Toolbar: New, Load, font name *)

\* handleFontNameChange: { ...prev, name }
handleFontNameChange(name) ==
    /\ font' = [font EXCEPT !.name = name]
    /\ UNCHANGED <<selection, clipboard>>

\* Toolbar: onChange of the font name field.
FontNameChange ==
    \E name \in TypedFontNames :
        /\ Event
        /\ handleFontNameChange(name)
        /\ lastOp' = [op |-> "rename", name |-> name]

\* Mutant of handleNewFont: a new font also empties the clipboard.
handleNewFontClearsClipboard(confirmed) ==
    IF confirmed
    THEN /\ font' = createEmptyFont("Untitled Font")
         /\ selection' = [anchor |-> 0, selected |-> <<0>>]
         /\ clipboard' = Null
    ELSE UNCHANGED <<font, selection, clipboard>>

\* handleNewFont: confirmed is what confirm() returned.
handleNewFont(confirmed) ==
    IF confirmed
    THEN /\ font' = createEmptyFont("Untitled Font")
         /\ selection' = [anchor |-> 0, selected |-> <<0>>]
         /\ UNCHANGED clipboard
    ELSE UNCHANGED <<font, selection, clipboard>>

NewFont ==
    \E confirmed \in BOOLEAN :
        /\ Event
        /\ handleNewFont(confirmed)
        /\ lastOp' = [op |-> "new", confirmed |-> confirmed]

\* A property of a parsed JSON object, undefined when it is missing.
Prop(obj, key, missing) == IF key \in DOMAIN obj THEN obj[key] ELSE missing

\* char.segments || 0
SegmentsOrZero(char) == Prop(char, "segments", 0)

\* { segments: char.segments || 0, name: char.name || null }
Normalize(char) ==
    [segments |-> SegmentsOrZero(char),
     name     |-> NameOrNull(Prop(char, "name", UndefinedName))]

\* Mutant of LoadEach: entries at idx >= 256 are not discarded.
RECURSIVE LoadEachNoLimit(_, _, _)
LoadEachNoLimit(characters, raw, idx) ==
    IF idx >= Len(raw) THEN characters
    ELSE LoadEachNoLimit(IF At(raw, idx) # Null
                         THEN ArraySet(characters, idx, Normalize(At(raw, idx)))
                         ELSE characters,
                         raw, idx + 1)

\* data.characters.forEach((char, idx) => ...), from entry idx on.
RECURSIVE LoadEach(_, _, _)
LoadEach(characters, raw, idx) ==
    IF idx >= Len(raw) THEN characters
    ELSE LoadEach(IF idx < NumSlots /\ At(raw, idx) # Null
                  THEN ArraySet(characters, idx, Normalize(At(raw, idx)))
                  ELSE characters,
                  raw, idx + 1)

\* Mutant of EnsureZero: character 0 is left as loaded.
EnsureZeroSkipped(characters) == characters

\* if (characters[0] === null) characters[0] = { segments: 0, name: null }
EnsureZero(characters) ==
    IF At(characters, 0) = Null THEN ArraySet(characters, 0, BlankChar)
    ELSE characters

\* The characters handleLoadFont builds from data.
LoadCharacters(data) ==
    LET blank == [k \in 1..NumSlots |-> Null]
    IN  EnsureZero(IF "characters" \in DOMAIN data
                   THEN LoadEach(blank, data.characters, 0)
                   ELSE blank)

\* data.name || 'Loaded Font'
LoadName(data) ==
    LET name == Prop(data, "name", UndefinedName)
    IN  IF NameTruthy(name) THEN name ELSE "Loaded Font"

\* A load that leaves the selection as it is.
handleLoadFontKeepsSelection(data) ==
    /\ font' = [name |-> LoadName(data), characters |-> LoadCharacters(data)]
    /\ UNCHANGED <<selection, clipboard>>

\* handleLoadFont: data is the parsed file.
handleLoadFont(data) ==
    /\ font' = [name |-> LoadName(data), characters |-> LoadCharacters(data)]
    /\ selection' = [anchor |-> 0, selected |-> <<0>>]
    /\ UNCHANGED clipboard

\* The entries of a saved file's characters array: null, an object with no
\* properties, objects with segments and a name.
RawEntries ==
    {Null, <<>>, [segments |-> 1, name |-> "A"], [segments |-> 0, name |-> ""]}

\* The arrays of length n over RawEntries.
RawArrays(n) == [1..n -> RawEntries]

\* The file loaded in the editing specification: its array is one entry
\* longer than the table; the first GridCols entries and the last one hold a
\* named character whose only lit segment is the one clicked in the editor,
\* the others are null; it gives no font name.
EditFiles ==
    {[characters |-> [k \in 1..(NumSlots + 1) |->
                        IF k <= GridCols \/ k = NumSlots + 1
                        THEN [segments |-> 16384, name |-> "A"]
                        ELSE Null]]}

\* Every file: without characters, and with arrays shorter than, as long as
\* and longer than the table.
AllFiles ==
    {<<>>, [name |-> "F"]}
      \cup {[characters |-> raw] : raw \in UNION {RawArrays(n) : n \in 0..(NumSlots + 1)}}

LoadFont ==
    \E data \in EditFiles :
        /\ Event
        /\ handleLoadFont(data)
        /\ lastOp' = [op |-> "load", data |-> data]

\* Loading any file, for the claims about handleLoadFont alone.
LoadAnyFile ==
    \E data \in AllFiles :
        /\ Event
        /\ handleLoadFont(data)
        /\ lastOp' = [op |-> "load", data |-> data]

\* The files loaded over a selection: without characters, and with arrays
\* of one and two entries.
ResetFiles ==
    {<<>>} \cup {[characters |-> raw] : raw \in RawArrays(1) \cup RawArrays(2)}

\* Loading one of these files.  The step records the selection it started
\* from.
LoadOverSelection ==
    \E data \in ResetFiles :
        /\ Event
        /\ handleLoadFont(data)
        /\ lastOp' = [op |-> "load", data |-> data,
                      prevSelection |-> selection]

----------------------------------------------------------------------------

Next ==
    \/ Click
    \/ Arrow
    \/ SegmentClick
    \/ NameChange
    \/ ResetButton
    \/ CopyFrom
    \/ DragStart
    \/ DropMove
    \/ DropCopy
    \/ DropOnSelf
    \/ DragEnd
    \/ KeyCopy
    \/ KeyPaste
    \/ KeyDelete
    \/ KeySelectAll
    \/ FontNameChange
    \/ NewFont
    \/ LoadFont

Spec == Init /\ [][Next]_vars

\* Loading files only.
NextLoad == LoadAnyFile

SpecLoad == Init /\ [][NextLoad]_vars

\* handleSelect called directly with any index, one beyond the last slot
\* included, and any modifiers.
SelectAt ==
    \E index \in EngineIndices, shift \in BOOLEAN, ctrl \in BOOLEAN :
        /\ Event
        /\ handleSelect(index, shift, ctrl)
        /\ lastOp' = [op |-> "selectAt", index |-> index,
                      shift |-> shift, ctrl |-> ctrl]

\* Calls of handleSelect only.
NextEngine == SelectAt

SpecEngine == Init /\ [][NextEngine]_vars

\* Clicks on the grid, new fonts and loads of a file.
NextReset ==
    \/ Click
    \/ NewFont
    \/ LoadOverSelection

SpecReset == Init /\ [][NextReset]_vars

----------------------------------------------------------------------------
(* Properties *)

\* The indices of a selection, as a set.
SelectedSet(sel) == Elems(sel.selected)

\* A slot that holds a character.
Defined(chars, i) == At(chars, i) # Null /\ At(chars, i) # Undefined

\* The step handles the event named op: the steps that only set or reset the
\* cell dragged handle no event and keep the record of the last one.
Handles(op) == ops' = ops + 1 /\ lastOp'.op = op

\* The step handles an event with one of the names.
HandlesOneOf(names) == \E op \in names : Handles(op)

\* C1: in every reachable state the selected set is non-empty.
SelectedNeverEmpty == Len(selection.selected) > 0

\* C2: after every operation the anchor is a member of the selected set.
AnchorInSelected == selection.anchor \in SelectedSet(selection)

\* The destinations a drag of the selection from `from` to `to` computes.
DragDestinations(sel, from, to) == {s + (to - from) : s \in SelectedSet(sel)}

\* The destinations a paste of clip at the anchor computes.
PasteDestinations(clip, sel) ==
    IF clip = Null THEN {}
    ELSE {sel.anchor + clip.characters[k].offset : k \in 1..Len(clip.characters)}

\* C3: a move, a copy by drag or a paste one of whose computed destinations
\* lies outside the table leaves the font table and the selection as they
\* were.
MoveCopyPasteAllOrNothing ==
    [][( \/ /\ HandlesOneOf({"move", "copyDrag"})
            /\ DragDestinations(selection, lastOp'.from, lastOp'.to) \ Cells # {}
         \/ /\ Handles("paste")
            /\ PasteDestinations(clipboard, selection) \ Cells # {} )
       => font' = font /\ selection' = selection]_vars

\* C3 witness: a paste has been rejected with one destination inside the
\* table and another outside it.
PasteRejectedPartly ==
    /\ lastOp.op = "paste"
    /\ PasteDestinations(clipboard, selection) \ Cells # {}
    /\ PasteDestinations(clipboard, selection) \cap Cells # {}

\* C4: the character table has exactly as many slots as the grid in every
\* reachable state.
TableLengthFixed == Len(font.characters) = NumSlots

\* C4 witness: a file longer than the table was loaded and a paste has then
\* written several of its slots.
PastedIntoLoadedTable ==
    /\ lastOp.op = "paste"
    /\ font.name = "Loaded Font"
    /\ Len(selection.selected) > 1
    /\ \A i \in SelectedSet(selection) : Defined(font.characters, i)

\* The characters array of a loaded file, empty when the file has none.
RawCharacters(data) ==
    IF "characters" \in DOMAIN data THEN data.characters ELSE <<>>

\* C5: after a load, slot 0 is defined; no entry lies beyond the table; a
\* slot other than 0 whose entry is null or missing is absent; and slot 0 is
\* the blank character when its entry is null or missing.
LoadNormalizes ==
    lastOp.op = "load" =>
        LET raw == RawCharacters(lastOp.data)
        IN  /\ Defined(font.characters, 0)
            /\ Len(font.characters) = NumSlots
            /\ \A i \in Cells \ {0} :
                 (i >= Len(raw) \/ raw[i + 1] = Null) => font.characters[i + 1] = Null
            /\ (Len(raw) = 0 \/ raw[1] = Null) => font.characters[1] = BlankChar

\* C5 witness: a file was loaded whose array is longer than the table, has
\* null at 0 and a character beyond the table.
LoadedLongFileNullZero ==
    /\ lastOp.op = "load"
    /\ Len(RawCharacters(lastOp.data)) > NumSlots
    /\ RawCharacters(lastOp.data)[1] = Null
    /\ RawCharacters(lastOp.data)[NumSlots + 1] # Null
    /\ \E i \in Cells \ {0} : RawCharacters(lastOp.data)[i + 1] = Null

\* A character with segments 0 and no name.
EmptyContent(char) ==
    /\ char \notin {Null, Undefined}
    /\ char.segments = 0
    /\ char.name = NullName

\* The table a select of index leaves: the empty characters of the previous
\* selected set other than index are absent, an absent slot index is blank
\* unless shift is held, every other slot is as it was.
CoupledTable(chars, sel, index, shift) ==
    [k \in 1..Len(chars) |->
       IF (k - 1) \in SelectedSet(sel) /\ k - 1 # index /\ EmptyContent(chars[k])
       THEN Null
       ELSE IF k - 1 = index /\ ~shift /\ chars[k] = Null
       THEN [segments |-> 0, name |-> NullName]
       ELSE chars[k]]

\* C6: a click reverts the empty characters of the previous selected set
\* other than the clicked index, then creates the clicked slot unless shift
\* is held, and leaves every other slot unchanged; after a click without
\* shift the clicked slot is defined.
ClickCouplesTable ==
    [][Handles("click") =>
         /\ font'.characters =
              CoupledTable(font.characters, selection, lastOp'.index, lastOp'.shift)
         /\ ~lastOp'.shift => Defined(font'.characters, lastOp'.index)]_vars

\* C6 witness: on the empty font a plain click on the last cell has made it
\* blank and slot 0 absent.
ClickedAwayFromEmptyFont ==
    /\ ops = 1
    /\ lastOp = [op |-> "click", index |-> NumSlots - 1, shift |-> FALSE, ctrl |-> FALSE]
    /\ font.characters[1] = Null
    /\ font.characters[NumSlots] = [segments |-> 0, name |-> NullName]

\* C7: a plain click on an index other than the anchor, while the anchor
\* slot holds an empty character, leaves the previous anchor slot absent.
ClickAwayRevertsEmptyAnchor ==
    [][( /\ Handles("click")
         /\ ~lastOp'.shift /\ ~lastOp'.ctrl
         /\ lastOp'.index # selection.anchor
         /\ EmptyContent(At(font.characters, selection.anchor)) )
       => At(font'.characters, selection.anchor) = Null]_vars

\* C8 as claimed: an arrow-key step leaves every slot of the table
\* unchanged.
ArrowLeavesTable ==
    [][Handles("arrow") => font' = font]_vars

\* C8 amended: an arrow-key step whose candidate differs from the anchor
\* changes the table as a click on the candidate with the same shift does;
\* one whose candidate is the anchor changes nothing.
ArrowCouplesTable ==
    [][Handles("arrow") =>
         LET next == ArrowNext(lastOp'.key, selection.anchor)
         IN  IF next = selection.anchor
             THEN font' = font /\ selection' = selection
             ELSE font'.characters =
                    CoupledTable(font.characters, selection, next, lastOp'.shift)]_vars

\* C8 witness: on the empty font an arrow key without shift has moved the
\* anchor, created its slot and reverted slot 0.
ArrowChangedTable ==
    /\ ops = 1
    /\ lastOp.op = "arrow" /\ ~lastOp.shift
    /\ selection.anchor # 0
    /\ font.characters[1] = Null
    /\ font.characters[selection.anchor + 1] = [segments |-> 0, name |-> NullName]

\* C9: a click with shift (with or without ctrl) keeps the anchor and
\* selects exactly the indices between the anchor and the clicked index; a
\* click with no modifier makes the clicked index the anchor and the only
\* selected index.
ShiftRangePlainSingle ==
    [][Handles("click") =>
         LET index == lastOp'.index
             lo == IF selection.anchor < index THEN selection.anchor ELSE index
             hi == IF selection.anchor < index THEN index ELSE selection.anchor
         IN  /\ lastOp'.shift =>
                  /\ selection'.anchor = selection.anchor
                  /\ SelectedSet(selection') = lo..hi
             /\ (~lastOp'.shift /\ ~lastOp'.ctrl) =>
                  /\ selection'.anchor = index
                  /\ selection'.selected = <<index>>]_vars

\* C9 witness: a click with shift and ctrl below the anchor has selected the
\* range from the clicked index up to the anchor.
ShiftCtrlClickBelowAnchor ==
    /\ lastOp.op = "click"
    /\ lastOp.shift /\ lastOp.ctrl
    /\ lastOp.index < selection.anchor
    /\ SelectedSet(selection) = lastOp.index..selection.anchor

\* The member of a non-empty set of selected indices inserted first.
FirstInserted(selected, members) ==
    CHOOSE x \in members :
        \A y \in members :
            (CHOOSE k \in 1..Len(selected) : selected[k] = x)
              <= (CHOOSE k \in 1..Len(selected) : selected[k] = y)

\* C10: a click with ctrl alone toggles the clicked index in the selected
\* set; when it removes the anchor, the new anchor is the remaining member
\* inserted first, or the clicked index, again selected alone, when no member
\* remains; in every other case the new anchor is the clicked index.
CtrlClickToggles ==
    [][(Handles("click") /\ ~lastOp'.shift /\ lastOp'.ctrl) =>
         LET index == lastOp'.index
             was   == index \in SelectedSet(selection)
             rest  == SelectedSet(selection) \ {index}
         IN  IF was /\ index = selection.anchor
             THEN IF rest # {}
                  THEN /\ selection'.anchor = FirstInserted(selection.selected, rest)
                       /\ SelectedSet(selection') = rest
                  ELSE /\ selection'.anchor = index
                       /\ SelectedSet(selection') = {index}
             ELSE /\ selection'.anchor = index
                  /\ SelectedSet(selection') =
                       IF was THEN rest ELSE SelectedSet(selection) \cup {index}]_vars

\* C10 witness: a ctrl-click has removed the anchor and the new anchor, the
\* remaining member inserted first, is not the smallest remaining index.
CtrlRemovedAnchorFirstNotSmallest ==
    /\ lastOp.op = "click" /\ ~lastOp.shift /\ lastOp.ctrl
    /\ lastOp.index \notin SelectedSet(selection)
    /\ selection.anchor # lastOp.index
    /\ selection.anchor \in SelectedSet(selection)
    /\ selection.selected[1] = selection.anchor
    /\ \E j \in SelectedSet(selection) : j < selection.anchor

\* A step of `op` from `from` to `to` that passed the guards of the drag.
DragSucceeds(op) ==
    /\ Handles(op)
    /\ lastOp'.from # lastOp'.to
    /\ DragDestinations(selection, lastOp'.from, lastOp'.to) \subseteq Cells

\* C11: after a successful move with offset to - from, every destination
\* s + offset holds what source s held, every source that is no destination
\* is absent, every slot that is neither is unchanged, and the selected set
\* is the set of destinations.
MoveRelocatesSelection ==
    [][DragSucceeds("move") =>
         LET offset == lastOp'.to - lastOp'.from
             srcs   == SelectedSet(selection)
             dsts   == DragDestinations(selection, lastOp'.from, lastOp'.to)
         IN  /\ \A s \in srcs :
                  At(font'.characters, s + offset) = At(font.characters, s)
             /\ \A s \in srcs \ dsts : At(font'.characters, s) = Null
             /\ \A i \in Cells \ (srcs \cup dsts) :
                  At(font'.characters, i) = At(font.characters, i)
             /\ SelectedSet(selection') = dsts]_vars

\* C11 witness: a move has shifted a range of defined characters onto slots
\* some of which were sources of the same move.
MovedOverlappingRange ==
    /\ lastOp.op = "move"
    /\ selection.selected # lastOp.prevSelected
    /\ Elems(lastOp.prevSelected) \cap SelectedSet(selection) # {}
    /\ \A s \in Elems(lastOp.prevSelected) : Defined(lastOp.prevCharacters, s)
    /\ \A d \in SelectedSet(selection) : Defined(font.characters, d)

\* C12: after every successful move or copy by drag the new anchor is the
\* previous anchor plus the offset.
DragShiftsAnchorExactly ==
    [][(DragSucceeds("move") \/ DragSucceeds("copyDrag")) =>
         selection'.anchor = selection.anchor + (lastOp'.to - lastOp'.from)]_vars

\* The previous step was a successful move and this step is the move back:
\* from the cell the first move dropped on, to the cell it dragged.
MoveThenMoveBack == Handles("move") /\ lastOp'.back

\* No destination of the move recorded in op was a slot outside the moved
\* selection that held a character.
NoDestinationHeldContent(op) ==
    \A s \in Elems(op.prevSelected) :
        LET d == s + (op.to - op.from)
        IN  d \in Elems(op.prevSelected) \/ ~Defined(op.prevCharacters, d)

\* C13: a successful move followed at once by the move back restores, at
\* every index selected before the first move, what that slot held then,
\* provided no destination of the first move was a slot outside the
\* selection that held a character.
MoveRoundTrip ==
    [][(MoveThenMoveBack /\ NoDestinationHeldContent(lastOp)) =>
         \A s \in Elems(lastOp.prevSelected) :
             At(font'.characters, s) = At(lastOp.prevCharacters, s)]_vars

\* C13 witness: a range holding a character and an absent slot has been
\* moved onto slots overlapping it and moved back, and holds what it held.
MovedRangeThereAndBack ==
    /\ lastOp.op = "move" /\ lastOp.back
    /\ selection.selected # lastOp.prevSelected
    /\ Len(selection.selected) > 1
    /\ Elems(lastOp.prevSelected) \cap SelectedSet(selection) # {}
    /\ \E s \in SelectedSet(selection) : Defined(font.characters, s)
    /\ \E s \in SelectedSet(selection) : ~Defined(font.characters, s)

\* C14 as claimed: after a successful copy by drag every slot that was
\* selected before the operation holds what it held before.
CopyDragLeavesSources ==
    [][DragSucceeds("copyDrag") =>
         \A s \in SelectedSet(selection) :
             At(font'.characters, s) = At(font.characters, s)]_vars

\* C14 amended: after a successful copy by drag every slot that was selected
\* before the operation and is not a destination of a defined source holds
\* what it held before.
CopyDragLeavesUnwrittenSources ==
    [][DragSucceeds("copyDrag") =>
         LET offset  == lastOp'.to - lastOp'.from
             srcs    == SelectedSet(selection)
             written == {s + offset : s \in {x \in srcs : Defined(font.characters, x)}}
         IN  \A s \in srcs \ written :
                 At(font'.characters, s) = At(font.characters, s)]_vars

\* C14 witness: a copy by drag of a range onto slots overlapping it has left
\* the dragged source, which is no destination, as it was, and has written
\* a copy into another slot of the range.
CopyDraggedOntoOwnRange ==
    /\ lastOp.op = "copyDrag"
    /\ Len(selection.selected) > 1
    /\ lastOp.from \notin SelectedSet(selection)
    /\ lastOp.to \in SelectedSet(selection)
    /\ \E d \in SelectedSet(selection) :
         d - (lastOp.to - lastOp.from) \in SelectedSet(selection)
    /\ Defined(font.characters, lastOp.from)
    /\ At(font.characters, lastOp.to) = CopyOf(At(font.characters, lastOp.from))

\* The copy the claims describe: the segments of char, and its name with
\* "_copy" appended, or no name when char has none.
SuffixedCopy(char) ==
    [segments |-> char.segments,
     name |-> IF char.name \in {NullName, UndefinedName, ""} THEN NullName
              ELSE char.name \o "_copy"]

\* C15: after a successful copy by drag with offset d, slot s + d holds the
\* suffixed copy of what source s held before when s held a character, and
\* what it held before when s was absent; the selected set is the set of
\* all destinations.
CopyDragWritesCopies ==
    [][DragSucceeds("copyDrag") =>
         LET d    == lastOp'.to - lastOp'.from
             srcs == SelectedSet(selection)
         IN  /\ \A s \in srcs :
                  At(font'.characters, s + d) =
                    IF Defined(font.characters, s)
                    THEN SuffixedCopy(At(font.characters, s))
                    ELSE At(font.characters, s + d)
             /\ SelectedSet(selection') = {s + d : s \in srcs}]_vars

\* C15 witness: a copy by drag of a named character and an absent slot has
\* written the suffixed copy of the first, has not written the destination
\* of the second, and has selected both destinations.
CopyDraggedNamedAndAbsent ==
    /\ lastOp.op = "copyDrag"
    /\ selection.selected # lastOp.prevSelected
    /\ \E s \in Elems(lastOp.prevSelected) :
         /\ Defined(lastOp.prevCharacters, s)
         /\ At(lastOp.prevCharacters, s).name = "A"
         /\ At(font.characters, s + (lastOp.to - lastOp.from)).name = "A_copy"
    /\ \E s \in Elems(lastOp.prevSelected) :
         /\ ~Defined(lastOp.prevCharacters, s)
         /\ s + (lastOp.to - lastOp.from) \in SelectedSet(selection)
         /\ At(font.characters, s + (lastOp.to - lastOp.from)) =
              At(lastOp.prevCharacters, s + (lastOp.to - lastOp.from))

\* The entries of a clipboard, as a set.
Entries(clip) == {clip.characters[k] : k \in 1..Len(clip.characters)}

\* C16: a copy to the clipboard leaves the table and the selection unchanged;
\* when no selected index holds a character the clipboard keeps its value,
\* and otherwise the clipboard holds exactly one entry (index - anchor,
\* character) for each selected index that holds a character.
CopyStoresDefinedSelected ==
    [][Handles("copy") =>
         LET defined == {i \in SelectedSet(selection) : Defined(font.characters, i)}
         IN  /\ font' = font
             /\ selection' = selection
             /\ IF defined = {}
                THEN clipboard' = clipboard
                ELSE /\ Len(clipboard'.characters) = Cardinality(defined)
                     /\ Entries(clipboard') =
                          {[offset |-> i - selection.anchor,
                            char   |-> At(font.characters, i)] : i \in defined}]_vars

\* C16 witness: a copy of a selection with an absent index has stored the
\* defined ones only, one of them away from the anchor.
CopiedSelectionWithAbsent ==
    /\ lastOp.op = "copy"
    /\ clipboard # Null
    /\ Len(clipboard.characters) < Len(selection.selected)
    /\ \E e \in Entries(clipboard) : e.offset # 0
    /\ \A e \in Entries(clipboard) :
         /\ selection.anchor + e.offset \in SelectedSet(selection)
         /\ At(font.characters, selection.anchor + e.offset) = e.char

\* C17: a paste with no clipboard or an empty one changes nothing; a paste
\* all of whose destinations anchor + offset are in the table writes at each
\* the suffixed copy of the stored character, selects exactly the
\* destinations, and leaves the anchor and every other slot unchanged.
PasteWritesAtAnchorOffsets ==
    [][Handles("paste") =>
         IF clipboard = Null \/ Entries(clipboard) = {}
         THEN font' = font /\ selection' = selection
         ELSE LET dests == PasteDestinations(clipboard, selection)
              IN  dests \subseteq Cells =>
                    /\ \A e \in Entries(clipboard) :
                         At(font'.characters, selection.anchor + e.offset) =
                           SuffixedCopy(e.char)
                    /\ SelectedSet(selection') = dests
                    /\ selection'.anchor = selection.anchor
                    /\ \A i \in Cells \ dests :
                         At(font'.characters, i) = At(font.characters, i)
                    /\ font'.name = font.name]_vars

\* C17 witness: a clipboard of two entries has been pasted away from the
\* slots it was copied from, one of which still holds the stored character.
PastedTwoElsewhere ==
    /\ lastOp.op = "paste"
    /\ clipboard # Null
    /\ Len(clipboard.characters) = 2
    /\ SelectedSet(selection) = PasteDestinations(clipboard, selection)
    /\ SelectedSet(selection) \subseteq Cells
    /\ \A e \in Entries(clipboard) :
         At(font.characters, selection.anchor + e.offset) = SuffixedCopy(e.char)
    /\ \E i \in Cells \ SelectedSet(selection), e \in Entries(clipboard) :
         At(font.characters, i) = e.char /\ e.char.name = "A"

\* C18: the clipboard changes only in a copy of a selection that holds a
\* character, so no step of any other operation changes it; and a paste
\* writes the copies of the characters the clipboard holds, whatever the
\* table holds at that time.
ClipboardOnlyChangedByCopy ==
    [][/\ clipboard' # clipboard =>
            /\ Handles("copy")
            /\ \E i \in SelectedSet(selection) : Defined(font.characters, i)
       /\ lastOp'.op \in {"click", "arrow", "segmentClick", "nameChange",
                          "resetButton", "copyFrom", "move", "copyDrag",
                          "paste", "reset", "rename", "new", "load",
                          "selectAll", "dragStart", "dropOnSelf"} =>
            clipboard' = clipboard
       /\ (Handles("paste") /\ font' # font) =>
            \A e \in Entries(clipboard) :
                At(font'.characters, selection.anchor + e.offset) =
                  SuffixedCopy(e.char)]_vars

\* C18 witness: within five events of the new font, the character
\* {segments 16384, no name} has been copied from slot 0, slot 0 has then been
\* named, and the paste at slot 1 has written the character as copied.
PastedAsCopiedAfterEdit ==
    /\ lastOp.op = "paste"
    /\ ops <= 5
    /\ font.name = "Untitled Font"
    /\ selection.anchor = 1
    /\ clipboard = [characters |-> <<[offset |-> 0,
                                      char |-> [segments |-> 16384, name |-> NullName]]>>]
    /\ At(font.characters, 0) = [segments |-> 16384, name |-> "A"]
    /\ At(font.characters, 1) = [segments |-> 16384, name |-> NullName]

\* C19: a reset of the selection sets the segments of every selected slot
\* that holds a character to 0 and keeps its name, leaves every other slot,
\* the selection and the clipboard unchanged, and a second reset right after
\* the first changes nothing.
ResetClearsSelectedSegments ==
    [][Handles("reset") =>
         /\ \A i \in Cells :
              At(font'.characters, i) =
                IF i \in SelectedSet(selection) /\ Defined(font.characters, i)
                THEN [segments |-> 0, name |-> At(font.characters, i).name]
                ELSE At(font.characters, i)
         /\ font'.name = font.name
         /\ selection' = selection
         /\ clipboard' = clipboard
         /\ lastOp.op = "reset" => font' = font]_vars

\* C19 witness: a reset of a selection of a named character and an absent
\* slot has cleared the segments of the first and kept its name, next to an
\* unselected character that keeps its segments.
ResetNamedAndAbsent ==
    /\ lastOp.op = "reset"
    /\ \E i \in SelectedSet(selection) :
         At(font.characters, i) = [segments |-> 0, name |-> "A"]
    /\ \E i \in SelectedSet(selection) : At(font.characters, i) = Null
    /\ \E i \in Cells \ SelectedSet(selection) :
         Defined(font.characters, i) /\ At(font.characters, i).segments # 0

\* The slots other than the anchor, the selection and the font name are
\* unchanged by the step.
OnlyAnchorSlotMayChange ==
    /\ \A i \in Cells \ {selection.anchor} :
         At(font'.characters, i) = At(font.characters, i)
    /\ Len(font'.characters) = Len(font.characters)
    /\ font'.name = font.name
    /\ selection' = selection

\* C20: copying the segments from an absent slot changes nothing; copying
\* them from a slot that holds a character sets the segments of the anchor
\* slot to the source's and leaves its name, every other slot and the
\* selection unchanged.  An update of the character by the editor (segment
\* click, name field, Reset button) replaces the slot at the anchor only.
CopyFromAndUpdateTouchAnchorOnly ==
    [][/\ Handles("copyFrom") =>
            IF ~Defined(font.characters, lastOp'.index)
            THEN font' = font /\ selection' = selection
            ELSE /\ At(font'.characters, selection.anchor) =
                      [segments |-> At(font.characters, lastOp'.index).segments,
                       name     |-> At(font.characters, selection.anchor).name]
                 /\ OnlyAnchorSlotMayChange
       /\ Handles("segmentClick") =>
            /\ At(font'.characters, selection.anchor) =
                 [segments |-> XorBit(At(font.characters, selection.anchor).segments,
                                      lastOp'.bit),
                  name     |-> At(font.characters, selection.anchor).name]
            /\ OnlyAnchorSlotMayChange
       /\ Handles("nameChange") =>
            /\ At(font'.characters, selection.anchor) =
                 [segments |-> At(font.characters, selection.anchor).segments,
                  name     |-> IF lastOp'.value = "" THEN NullName ELSE lastOp'.value]
            /\ OnlyAnchorSlotMayChange
       /\ Handles("resetButton") =>
            /\ At(font'.characters, selection.anchor) =
                 [segments |-> 0,
                  name     |-> At(font.characters, selection.anchor).name]
            /\ OnlyAnchorSlotMayChange]_vars

\* C20 witness: within four events of the new font, the segments of slot 0
\* have been copied to the named character at the anchor, slot 1, which has
\* kept its name.
CopiedSegmentsIntoNamedAnchor ==
    /\ lastOp = [op |-> "copyFrom", index |-> 0]
    /\ ops <= 4
    /\ font.name = "Untitled Font"
    /\ selection.anchor = 1
    /\ At(font.characters, 0) = [segments |-> 16384, name |-> NullName]
    /\ At(font.characters, 1) = [segments |-> 16384, name |-> "A"]

\* The row and the column of a cell of the grid.
Row(i) == i \div GridCols
Col(i) == i % GridCols

\* C21: an arrow-key step without shift leaves the anchor in the grid; Up
\* and Down change it by exactly one row, or leave it where there is no cell
\* above or below; Left and Right change it by exactly one within its row,
\* and leave it in the first and in the last column; when the candidate is
\* the anchor nothing is selected.
ArrowClampsWithinRow ==
    [][(Handles("arrow") /\ ~lastOp'.shift) =>
         LET current == selection.anchor
             next    == selection'.anchor
             key     == lastOp'.key
         IN  /\ next \in Cells
             /\ key = "ArrowUp" =>
                  next = IF Row(current) = 0 THEN current ELSE current - GridCols
             /\ key = "ArrowDown" =>
                  next = IF current + GridCols \in Cells
                         THEN current + GridCols ELSE current
             /\ key = "ArrowLeft" =>
                  next = IF Col(current) = 0 THEN current ELSE current - 1
             /\ key = "ArrowRight" =>
                  next = IF Col(current) = GridCols - 1 \/ current + 1 \notin Cells
                         THEN current ELSE current + 1
             /\ key \in {"ArrowLeft", "ArrowRight"} => Row(next) = Row(current)
             /\ next = current => font' = font /\ selection' = selection]_vars

\* C22: pressing Ctrl/Cmd+A makes the selected set the set of the indices
\* of all defined slots.
CtrlASelectsAllDefined ==
    [][Handles("selectAll") =>
         SelectedSet(selection') =
           {i \in Cells : Defined(font'.characters, i)}]_vars

\* C23: a select handed an index outside the table leaves the table and the
\* selection unchanged.
OutOfRangeSelectRejected ==
    [][(Handles("selectAt") /\ lastOp'.index \notin Cells) =>
         font' = font /\ selection' = selection]_vars

\* C25 as claimed: in a successful move the sources cleared are those whose
\* own destination is not one of the sources; the destinations are then
\* written, and every other slot is as it was.
MoveClearsByOwnDestination ==
    [][DragSucceeds("move") =>
         LET offset == lastOp'.to - lastOp'.from
             srcs   == SelectedSet(selection)
             dsts   == DragDestinations(selection, lastOp'.from, lastOp'.to)
         IN  \A i \in Cells :
                 At(font'.characters, i) =
                   IF i \in dsts THEN At(font.characters, i - offset)
                   ELSE IF i \in srcs /\ i + offset \notin srcs THEN Null
                   ELSE At(font.characters, i)]_vars

\* C25 amended: in a successful move the sources cleared are those that are
\* not the destination of a source: such a source is absent afterwards, and
\* a source that is a destination holds what was moved onto it.
MoveClearsSourcesNotDestinations ==
    [][DragSucceeds("move") =>
         LET offset == lastOp'.to - lastOp'.from
             srcs   == SelectedSet(selection)
         IN  \A s \in srcs :
                 At(font'.characters, s) =
                   IF s - offset \in srcs THEN At(font.characters, s - offset)
                   ELSE Null]_vars

\* C25 witness: a move has cleared a source that held a character and is no
\* destination, and has left on a source that is a destination the
\* character moved onto it.
MovedOntoOwnSource ==
    /\ lastOp.op = "move"
    /\ selection.selected # lastOp.prevSelected
    /\ \E s \in Elems(lastOp.prevSelected) \ SelectedSet(selection) :
         Defined(lastOp.prevCharacters, s) /\ At(font.characters, s) = Null
    /\ \E s \in Elems(lastOp.prevSelected) \cap SelectedSet(selection) :
         /\ Defined(font.characters, s)
         /\ At(font.characters, s) =
              At(lastOp.prevCharacters, s - (lastOp.to - lastOp.from))

\* C26: in every reachable state every slot that holds a character with
\* segments 0 and no name is in the selected set.
NoStaleEmptyPlaceholders ==
    \A i \in Cells :
        EmptyContent(At(font.characters, i)) => i \in SelectedSet(selection)

\* C27: in every reachable state the slot at the anchor holds a character.
AnchorSlotDefined == Defined(font.characters, selection.anchor)

\* C28: in every reachable state the anchor and every selected index are
\* indices of the table.
IndicesInRange ==
    /\ selection.anchor \in Cells
    /\ SelectedSet(selection) \subseteq Cells

\* C28 witness: a move has shifted a selection of more than one index up to
\* the last slot of the table.
MovedRangeToLastSlot ==
    /\ lastOp.op = "move"
    /\ selection.selected # lastOp.prevSelected
    /\ Len(selection.selected) > 1
    /\ NumSlots - 1 \in SelectedSet(selection)
    /\ lastOp.to > lastOp.from

DragStarts == dragIndex = NoCell /\ dragIndex' # NoCell

\* The step drops, on another cell, a drag whose start selected its cell.
SingleDragDrops ==
    /\ HandlesOneOf({"move", "copyDrag"})
    /\ lastOp'.single

\* C29: a drag starts only on a cell that holds a character; when that cell
\* is outside the selection the start selects exactly it and makes it the
\* anchor, and the drop that follows on another cell moves or copies that one
\* character: the move empties the cell dragged, the copy keeps it, the cell
\* dropped on receives the character, and no other cell changes; a drop on
\* the cell dragged changes neither the table nor the selection.
DragOfUnselectedIsSingle ==
    [][/\ DragStarts =>
            /\ Defined(font.characters, dragIndex')
            /\ ~Has(selection.selected, dragIndex') =>
                   selection' = [anchor |-> dragIndex',
                                 selected |-> <<dragIndex'>>]
       /\ SingleDragDrops =>
            /\ lastOp'.from = dragIndex
            /\ selection = [anchor |-> dragIndex, selected |-> <<dragIndex>>]
            /\ \A i \in Cells \ {dragIndex, lastOp'.to} :
                   At(font'.characters, i) = At(font.characters, i)
            /\ Handles("move") =>
                   /\ At(font'.characters, lastOp'.to) =
                        At(font.characters, dragIndex)
                   /\ At(font'.characters, dragIndex) = Null
            /\ Handles("copyDrag") =>
                   /\ At(font'.characters, lastOp'.to) =
                        SuffixedCopy(At(font.characters, dragIndex))
                   /\ At(font'.characters, dragIndex) =
                        At(font.characters, dragIndex)
       /\ Handles("dropOnSelf") =>
            /\ lastOp'.index = dragIndex
            /\ UNCHANGED <<font, selection, clipboard>>]_vars

\* C29 witness: the start of a drag has selected its cell, slot 2, and the
\* drop has moved that character onto slot 1, which held another; slot 0 has
\* kept its character.
DraggedUnselectedOntoSelected ==
    /\ lastOp.op = "move"
    /\ lastOp.single
    /\ lastOp.from = 2
    /\ lastOp.to = 1
    /\ Defined(lastOp.prevCharacters, 0)
    /\ Defined(lastOp.prevCharacters, 1)
    /\ At(font.characters, 0) = At(lastOp.prevCharacters, 0)
    /\ At(font.characters, 1) = At(lastOp.prevCharacters, 2)
    /\ At(font.characters, 2) = Null

\* The character a load leaves in slot i of the table: the normalised entry
\* of the file, the blank character in slot 0 and nothing elsewhere when the
\* file has no entry there.
LoadedSlot(data, i) ==
    LET raw == RawCharacters(data)
    IN  IF i < Len(raw) /\ raw[i + 1] # Null THEN Normalize(raw[i + 1])
        ELSE IF i = 0 THEN BlankChar
        ELSE Null

\* C31: a confirmed new font leaves the empty font, whose only character is
\* the blank one in slot 0, and a load leaves the table of the file, whatever
\* the table held; both leave anchor 0 and selected {0}, so the anchor is
\* selected and its slot holds a character, whatever the selection was; a
\* declined new font changes neither the font, the selection nor the
\* clipboard.
NewAndLoadReplaceAndReset ==
    [][/\ (Handles("new") /\ lastOp'.confirmed) =>
            /\ font'.name = "Untitled Font"
            /\ Len(font'.characters) = NumSlots
            /\ At(font'.characters, 0) = BlankChar
            /\ \A i \in Cells \ {0} : At(font'.characters, i) = Null
       /\ Handles("load") =>
            /\ Len(font'.characters) = NumSlots
            /\ \A i \in Cells :
                   At(font'.characters, i) = LoadedSlot(lastOp'.data, i)
       /\ ((Handles("new") /\ lastOp'.confirmed) \/ Handles("load")) =>
            /\ selection'.anchor = 0
            /\ SelectedSet(selection') = {0}
            /\ selection'.anchor \in SelectedSet(selection')
            /\ Defined(font'.characters, selection'.anchor)
       /\ (Handles("new") /\ ~lastOp'.confirmed) =>
            UNCHANGED <<font, selection, clipboard>>]_vars

\* C31 witness: with two cells selected, the anchor outside the selected set
\* and not at slot 0, a file has been loaded whose entry 0 is null.
LoadedOverOddSelection ==
    /\ lastOp.op = "load"
    /\ RawCharacters(lastOp.data) # <<>>
    /\ RawCharacters(lastOp.data)[1] = Null
    /\ lastOp.prevSelection.anchor # 0
    /\ lastOp.prevSelection.anchor \notin SelectedSet(lastOp.prevSelection)
    /\ selection = [anchor |-> 0, selected |-> <<0>>]
    /\ At(font.characters, 0) = BlankChar

=============================================================================
